---- MODULE Spec2Model ----
(***************************************************************************)
(* Model of the threat-geometry engine of traveling-uav                    *)
(* (src/geometry/circle.py, class Circle) and of the single-threat planner *)
(* that src/tests/test_planning.py exercises.                              *)
(*                                                                         *)
(* Representation.  Floats are fixed-point integers.  Points that belong   *)
(* to one circle are kept in polar form about that circle's center:        *)
(* [rad |-> distance from the center, ang |-> direction].  Angles are      *)
(* integers in units of pi / HalfTurn, HalfTurn = 2 * BUFFER_RESOLUTION:   *)
(* this is the vertex spacing of the polygons that                         *)
(* center.buffer(radius, resolution = BUFFER_RESOLUTION) builds (40        *)
(* segments a quarter turn), and Circle.ANGLE_STEP is two such units.      *)
(* Cosines come from COS_TABLE, scaled by SCALE.  Distances are compared   *)
(* through their squares (sqrt is monotone).                               *)
(***************************************************************************)
EXTENDS Integers, Sequences, FiniteSets, TLC

VARIABLES radius, pc, op, args, angle, boundary, point_between, inf_partition, result

vars == <<radius, pc, op, args, angle, boundary, point_between, inf_partition, result>>

(***************************************************************************)
(* Program constants                                                       *)
(***************************************************************************)
INF == 1000
BUFFER_RESOLUTION == 40
EPSILON == 1

HalfTurn == 2 * BUFFER_RESOLUTION
FullTurn == 2 * HalfTurn
QuarterTurn == HalfTurn \div 2
\* Circle.ANGLE_STEP = math.pi / BUFFER_RESOLUTION, in grid units
ANGLE_STEP == HalfTurn \div BUFFER_RESOLUTION

(***************************************************************************)
(* Bounds of the model                                                     *)
(***************************************************************************)
MaxRadius == 2
MaxRad == 7
AngleStride == 9
MaxPartitionRadius == 4
MaxCentersDistance == 6
FarY == 1500
MaxLength == 4000
NearBeta == 8
FarBeta == 30

(***************************************************************************)
(* Fixed-point trigonometry: COS_TABLE[k + 1] = round(SCALE * cos(k pi /   *)
(* HalfTurn)) for k = 0 .. QuarterTurn.                                    *)
(***************************************************************************)
COS_TABLE ==
  << 10000, 9992, 9969, 9931, 9877, 9808, 9724, 9625, 9511, 9382,
     9239, 9081, 8910, 8725, 8526, 8315, 8090, 7853, 7604, 7343,
     7071, 6788, 6494, 6191, 5878, 5556, 5225, 4886, 4540, 4187,
     3827, 3461, 3090, 2714, 2334, 1951, 1564, 1175, 785, 393, 0 >>

SCALE == COS_TABLE[1]

Abs(x) == IF x < 0 THEN -x ELSE x

\* the angle a brought into (-pi, pi], the range of math.atan2
NormAngle(a) ==
  LET m == a % FullTurn
  IN  IF m > HalfTurn THEN m - FullTurn ELSE m

\* the unsigned angle between two directions, in 0 .. HalfTurn
AngDist(a, b) ==
  LET m == (a - b) % FullTurn
  IN  IF m > HalfTurn THEN FullTurn - m ELSE m

Cos(d) ==
  LET m == AngDist(d, 0)
  IN  IF m <= QuarterTurn THEN COS_TABLE[m + 1]
      ELSE -COS_TABLE[HalfTurn - m + 1]

Sin(d) == Cos(d - QuarterTurn)

(***************************************************************************)
(* Coord (geometry/coord.py), in polar form about the circle's center      *)
(***************************************************************************)
Polar(r, a) == [rad |-> r, ang |-> IF r = 0 THEN 0 ELSE NormAngle(a)]

\* SCALE * (squared distance between p and q): the law of cosines
Dist2(p, q) ==
  SCALE * (p.rad * p.rad + q.rad * q.rad) - 2 * p.rad * q.rad * Cos(p.ang - q.ang)

\* calculate_directional_angle_of_line(start = self.center, end = p)
calculate_directional_angle_of_line(p) == p.ang

\* self.center.shifted(distance, angle)
center_shifted(distance, a) == Polar(distance, a)

Reverse(s) == [i \in 1..Len(s) |-> s[Len(s) + 1 - i]]

(***************************************************************************)
(* Inputs                                                                  *)
(***************************************************************************)
AngleInputs ==
  {a \in (1 - HalfTurn)..HalfTurn : a % AngleStride = 0} \cup {HalfTurn, 1 - HalfTurn}

RadInputs == {0, radius, MaxRad}

PointInputs == {Polar(r, a) : r \in RadInputs, a \in AngleInputs}

NoResult == [kind |-> "none"]

(***************************************************************************)
(* Circle.get_boundary_between                                             *)
(***************************************************************************)
\* line 89: the shorter boundary is the counterclockwise one
shorter_is_counterclockwise_mutant(small_angle, great_angle) == TRUE

shorter_is_counterclockwise(small_angle, great_angle) ==
  great_angle - small_angle <= HalfTurn

\* line 104: the orientation of the returned list
oriented_mutant(b, start, end) == b

oriented(b, start, end) ==
  IF ~(Dist2(b[1], start) < Dist2(b[1], end)) THEN Reverse(b) ELSE b

\* lines 83-89 and 96: the two angles, and where the sampling starts
get_boundary_between_enter(start, end, caller_args) ==
  LET angle1 == calculate_directional_angle_of_line(start)
      angle2 == calculate_directional_angle_of_line(end)
      small_angle == IF angle1 < angle2 THEN angle1 ELSE angle2
      great_angle == IF angle1 < angle2 THEN angle2 ELSE angle1
  IN  /\ args' = [start |-> start, end |-> end,
                  small_angle |-> small_angle, great_angle |-> great_angle,
                  caller |-> caller_args]
      /\ boundary' = << >>
      /\ IF shorter_is_counterclockwise(small_angle, great_angle)
         THEN angle' = small_angle /\ pc' = "gbb_counterclockwise"
         ELSE angle' = great_angle /\ pc' = "gbb_clockwise"

get_boundary_between_call(start, end) ==
  /\ op' = "get_boundary_between"
  /\ result' = NoResult
  /\ get_boundary_between_enter(start, end, [none |-> TRUE])
  /\ UNCHANGED <<radius, point_between, inf_partition>>

\* lines 90-94
get_boundary_between_counterclockwise ==
  /\ pc = "gbb_counterclockwise"
  /\ IF angle < args.great_angle
     THEN /\ boundary' = Append(boundary, center_shifted(radius + EPSILON, angle))
          /\ angle' = angle + ANGLE_STEP
          /\ pc' = pc
     ELSE /\ boundary' = Append(boundary, center_shifted(radius + EPSILON, args.great_angle))
          /\ angle' = angle
          /\ pc' = "gbb_return"
  /\ UNCHANGED <<radius, op, args, result, point_between, inf_partition>>

\* lines 98-102
get_boundary_between_clockwise ==
  /\ pc = "gbb_clockwise"
  /\ IF angle < args.small_angle + FullTurn
     THEN /\ boundary' = Append(boundary, center_shifted(radius + EPSILON, angle))
          /\ angle' = angle + ANGLE_STEP
          /\ pc' = pc
     ELSE /\ boundary' = Append(boundary, center_shifted(radius + EPSILON, args.small_angle))
          /\ angle' = angle
          /\ pc' = "gbb_return"
  /\ UNCHANGED <<radius, op, args, result, point_between, inf_partition>>

\* line 104
get_boundary_between_return ==
  /\ pc = "gbb_return"
  /\ result' = [kind |-> "points", points |-> oriented(boundary, args.start, args.end)]
  /\ pc' = IF op = "get_boundary_between" THEN "done" ELSE "safest_assemble"
  /\ UNCHANGED <<radius, op, args, angle, boundary, point_between, inf_partition>>

(***************************************************************************)
(* Circle.calculate_exit_point                                             *)
(*                                                                         *)
(* A chord length is carried as chord2 = SCALE * chord^2, so that the      *)
(* chords between grid points are exact.                                   *)
(***************************************************************************)
\* the directions of the points of the circle (center, radius) at distance
\* chord from start
AnglesAtChord(start, chord2) ==
  {a \in (1 - HalfTurn)..HalfTurn :
     SCALE * (radius * radius + start.rad * start.rad)
       - 2 * radius * start.rad * Cos(a - start.ang) = chord2}

RECURSIVE SeqOfAngles(_, _)
\* the circle points at a set of directions, by increasing (up) or decreasing angle
SeqOfAngles(as, up) ==
  IF as = {} THEN << >>
  ELSE LET a == CHOOSE b \in as : \A o \in as : IF up THEN b <= o ELSE b >= o
       IN  <<Polar(radius, a)>> \o SeqOfAngles(as \ {a}, up)

\* calculate_points_in_distance_on_circle(self.center, self.radius, start, chord):
\* the points of the circle at distance chord from start, in one of the two
\* orders (the order is the helper's, and is not fixed here)
calculate_points_in_distance_on_circle(start, chord2, up) ==
  SeqOfAngles(AnglesAtChord(start, chord2), up)

\* start.shifted(distance, angle = Segment(start, self.center).angle):
\* the point at that distance from start on the ray from start through the center
shifted_towards_center(start, distance) ==
  IF distance <= start.rad
  THEN Polar(start.rad - distance, start.ang)
  ELSE Polar(distance - start.rad, start.ang + HalfTurn)

RECURSIVE ArgMin(_, _, _, _)
\* Python's min(points, key = distance to target): the first point of the
\* list that no later point beats; best is the index of the best so far
ArgMin(points, target, best, i) ==
  IF i > Len(points) THEN points[best]
  ELSE IF Dist2(points[i], target) < Dist2(points[best], target)
       THEN ArgMin(points, target, i, i + 1)
       ELSE ArgMin(points, target, best, i + 1)

\* lines 63-64, with the last point of the list taken whatever its distance
min_by_distance_mutant(points, target) ==
  IF Len(points) = 0 THEN [kind |-> "ValueError"]
  ELSE [kind |-> "point", point |-> points[Len(points)]]

\* lines 63-64: min(..., key = lambda p: p.distance_to(target)); min of an
\* empty list raises ValueError
min_by_distance(points, target) ==
  IF Len(points) = 0 THEN [kind |-> "ValueError"]
  ELSE [kind |-> "point", point |-> ArgMin(points, target, 1, 2)]

\* lines 60-61
diametral_exit(start) == shifted_towards_center(start, 2 * radius)

calculate_exit_point(start, chord2, target, up) ==
  /\ op' = "calculate_exit_point"
  /\ args' = [start |-> start, chord2 |-> chord2, target |-> target, up |-> up]
  /\ result' =
       IF chord2 >= SCALE * (2 * radius) * (2 * radius)
       THEN [kind |-> "point", point |-> diametral_exit(start)]
       ELSE min_by_distance(calculate_points_in_distance_on_circle(start, chord2, up), target)
  /\ pc' = "done"
  /\ UNCHANGED <<radius, angle, boundary, point_between, inf_partition>>

ExitStartInputs ==
  {Polar(r, a) : r \in {radius, radius + EPSILON, MaxRad}, a \in {0, AngleStride, HalfTurn}}

\* chords from start to the circle points at the input angles, the chord 0,
\* the diameter and a chord longer than the diameter
ChordInputs(start) ==
  {Dist2(Polar(radius, start.ang + d), start) : d \in AngleInputs}
    \cup {0, SCALE * (2 * radius) * (2 * radius), SCALE * (2 * radius + 1) * (2 * radius + 1)}

(***************************************************************************)
(* Circle.calculate_partition_between_circles                              *)
(*                                                                         *)
(* Several circles are involved, so points are Cartesian here: [x, y] in   *)
(* units of 1 / CS.  The two centers are taken on a horizontal line (the   *)
(* frame is turned so), in either order: the angle of the center segment   *)
(* is 0 or pi and the partition is vertical.                               *)
(***************************************************************************)
CS == SCALE \div 100

Pt(x, y) == [x |-> x, y |-> y]

\* n / d rounded towards zero
DivTrunc(n, d) == IF n < 0 THEN -((-n) \div d) ELSE n \div d

\* Coord.shifted(distance, angle)
shifted(p, distance, a) ==
  Pt(p.x + DivTrunc(distance * Cos(a), SCALE), p.y + DivTrunc(distance * Sin(a), SCALE))

\* Segment(a, b).length, for a and b on a horizontal line
segment_length(a, b) == Abs(b.x - a.x)

\* Segment(a, b).angle = atan2(b.y - a.y, b.x - a.x), for a and b on a horizontal line
segment_angle(a, b) == IF b.x >= a.x THEN 0 ELSE HalfTurn

\* a Circle: center and radius (in units of 1 / CS)
CircleOf(center, r) == [center |-> center, radius |-> r]

\* Circle.contains (line 54), compared through the squares
contains(circle, coord) ==
  (coord.x - circle.center.x) * (coord.x - circle.center.x)
    + (coord.y - circle.center.y) * (coord.y - circle.center.y)
      <= circle.radius * circle.radius

\* circle.to_shapely.boundary.coords: the vertices of center.buffer(radius,
\* resolution = BUFFER_RESOLUTION), BUFFER_RESOLUTION segments a quarter turn
boundary_coords(circle) ==
  [k \in 1..FullTurn |-> shifted(circle.center, circle.radius, k)]

RECURSIVE all_boundary_coords(_)
\* lines 152-153
all_boundary_coords(circles) ==
  IF Len(circles) = 0 THEN << >>
  ELSE boundary_coords(Head(circles)) \o all_boundary_coords(Tail(circles))

(* The convex hull of a list of points, cut by the vertical line x = X.    *)
(* With points on both sides, the upper end of the cut is on the hull's    *)
(* upper bridge over the line: the pair (a left, b right) whose line has   *)
(* every point on or below it, found by turning the line about a, then     *)
(* about b, until neither moves.                                           *)
RECURSIVE AnyOnSide(_, _, _, _, _)
\* an index in lo .. hi of a point with side * (x - X) > 0, or 0
AnyOnSide(points, X, side, lo, hi) ==
  IF lo = hi THEN (IF side * (points[lo].x - X) > 0 THEN lo ELSE 0)
  ELSE LET mid == (lo + hi) \div 2
           i == AnyOnSide(points, X, side, lo, mid)
       IN  IF i # 0 THEN i ELSE AnyOnSide(points, X, side, mid + 1, hi)

RECURSIVE BestRight(_, _, _, _, _)
\* among points lo .. hi right of the line, the one with the steepest
\* segment from a (the first such), or 0
BestRight(points, X, a, lo, hi) ==
  IF lo = hi THEN (IF points[lo].x > X THEN lo ELSE 0)
  ELSE LET mid == (lo + hi) \div 2
           i == BestRight(points, X, a, lo, mid)
           j == BestRight(points, X, a, mid + 1, hi)
       IN  IF i = 0 THEN j
           ELSE IF j = 0 THEN i
           ELSE IF (points[j].y - a.y) * (points[i].x - a.x)
                     > (points[i].y - a.y) * (points[j].x - a.x)
                THEN j ELSE i

RECURSIVE BestLeft(_, _, _, _, _)
\* among points lo .. hi left of the line, the one with the least steep
\* segment to b (the first such), or 0
BestLeft(points, X, b, lo, hi) ==
  IF lo = hi THEN (IF points[lo].x < X THEN lo ELSE 0)
  ELSE LET mid == (lo + hi) \div 2
           i == BestLeft(points, X, b, lo, mid)
           j == BestLeft(points, X, b, mid + 1, hi)
       IN  IF i = 0 THEN j
           ELSE IF j = 0 THEN i
           ELSE IF (b.y - points[j].y) * (b.x - points[i].x)
                     < (b.y - points[i].y) * (b.x - points[j].x)
                THEN j ELSE i

\* the height at the line of the segment from a (left) to b (right)
HeightAtLine(a, b, X) == a.y + ((b.y - a.y) * (X - a.x)) \div (b.x - a.x)

RECURSIVE UpperBridge(_, _, _, _)
UpperBridge(points, X, a, b) ==
  LET b2 == points[BestRight(points, X, a, 1, Len(points))]
      a2 == points[BestLeft(points, X, b2, 1, Len(points))]
  IN  IF a2 = a /\ b2 = b THEN <<a, b>> ELSE UpperBridge(points, X, a2, b2)

RECURSIVE MaxOnLine(_, _, _, _)
\* the greatest y of the points lo .. hi on the line, or NoY
MaxOnLine(points, X, lo, hi) ==
  IF lo = hi THEN (IF points[lo].x = X THEN points[lo].y ELSE -(SCALE * SCALE))
  ELSE LET mid == (lo + hi) \div 2
           i == MaxOnLine(points, X, lo, mid)
           j == MaxOnLine(points, X, mid + 1, hi)
       IN  IF i > j THEN i ELSE j

NoY == -(SCALE * SCALE)

\* the upper end of the hull's cut by the line x = X, or NoY when the line
\* misses the hull
HullTop(points, X) ==
  LET l == AnyOnSide(points, X, -1, 1, Len(points))
      r == AnyOnSide(points, X, 1, 1, Len(points))
      on == MaxOnLine(points, X, 1, Len(points))
  IN  IF l = 0 \/ r = 0 THEN on
      ELSE LET ab == UpperBridge(points, X, points[l], points[r])
               y == HeightAtLine(ab[1], ab[2], X)
           IN  IF on > y THEN on ELSE y

Mirror(points) == [i \in 1..Len(points) |-> Pt(points[i].x, -points[i].y)]

\* the cut of the hull by the line x = X: [empty, bottom, top]
HullCut(points, X) ==
  LET top == HullTop(points, X)
      bottom == -HullTop(Mirror(points), X)
  IN  [empty |-> top = NoY, bottom |-> bottom, top |-> top]

\* lines 144-148 with the radius of circle2 added, not subtracted
point_between_distance_mutant(radius1, centers_distance, radius2) ==
  (radius1 + (centers_distance + radius2)) \div 2

\* line 144: (radius1 + (centers_distance - radius2)) / 2
point_between_distance(radius1, centers_distance, radius2) ==
  DivTrunc(radius1 + (centers_distance - radius2), 2)

\* lines 137-148
calculate_partition_between_circles(circle1, circle2, source, target, all_circles) ==
  /\ op' = "calculate_partition_between_circles"
  /\ args' = [circle1 |-> circle1, circle2 |-> circle2, source |-> source,
              target |-> target, all_circles |-> all_circles]
  /\ LET center1 == circle1.center
         center2 == circle2.center
         centers_distance == segment_length(center1, center2)
         centers_angle == segment_angle(center1, center2)
         pb == shifted(center1,
                       point_between_distance(circle1.radius, centers_distance, circle2.radius),
                       centers_angle)
     IN  /\ point_between' = pb
         /\ inf_partition' = [a |-> shifted(pb, INF * CS, centers_angle + QuarterTurn),
                              b |-> shifted(pb, INF * CS, centers_angle - QuarterTurn)]
  /\ pc' = "partition_truncate"
  /\ UNCHANGED <<radius, angle, boundary, result>>

\* what indexing the coords of an empty intersection raises: IndexError when
\* shapely returns an empty LineString, NotImplementedError when it returns
\* an empty GeometryCollection (which of the two depends on the GEOS build)
EmptyIntersectionErrors == {"IndexError", "NotImplementedError"}

\* lines 157-158 with a single intersection point used for both ends
truncated_mutant(cut, partition, empty_error) ==
  LET lo == IF partition.a.y < partition.b.y THEN partition.a.y ELSE partition.b.y
      hi == IF partition.a.y < partition.b.y THEN partition.b.y ELSE partition.a.y
      bottom == IF cut.bottom < lo THEN lo ELSE cut.bottom
      top == IF cut.top > hi THEN hi ELSE cut.top
      up == partition.a.y < partition.b.y
  IN  IF cut.empty \/ bottom > top THEN [kind |-> empty_error]
      ELSE [kind |-> "Segment",
            a |-> Pt(partition.a.x, IF up THEN bottom ELSE top),
            b |-> Pt(partition.a.x, IF up THEN top ELSE bottom)]

\* lines 157-158: the intersection of the hull with the (vertical) segment
\* inf_partition is empty, a point or a segment along inf_partition.  The
\* coords of a point are one pair, and intersection_points[1] raises
\* IndexError; the coords of a segment are its two ends, in its direction.
truncated(cut, partition, empty_error) ==
  LET lo == IF partition.a.y < partition.b.y THEN partition.a.y ELSE partition.b.y
      hi == IF partition.a.y < partition.b.y THEN partition.b.y ELSE partition.a.y
      bottom == IF cut.bottom < lo THEN lo ELSE cut.bottom
      top == IF cut.top > hi THEN hi ELSE cut.top
      up == partition.a.y < partition.b.y
  IN  IF cut.empty \/ bottom > top THEN [kind |-> empty_error]
      ELSE IF bottom = top THEN [kind |-> "IndexError"]
      ELSE [kind |-> "Segment",
            a |-> Pt(partition.a.x, IF up THEN bottom ELSE top),
            b |-> Pt(partition.a.x, IF up THEN top ELSE bottom)]

\* lines 151-153
all_shapely_points(source, target, all_circles) ==
  <<source, target>> \o all_boundary_coords(all_circles)

\* lines 150-158; Polygon() of fewer than three points raises ValueError
calculate_partition_truncate ==
  /\ pc = "partition_truncate"
  /\ \E empty_error \in EmptyIntersectionErrors :
       result' =
         IF Len(args.all_circles) = 0 THEN [kind |-> "ValueError"]
         ELSE truncated(HullCut(all_shapely_points(args.source, args.target, args.all_circles),
                                inf_partition.a.x),
                        inf_partition, empty_error)
  /\ pc' = "done"
  /\ UNCHANGED <<radius, op, args, angle, boundary, point_between, inf_partition>>

PartitionRadii == {1, 2, MaxPartitionRadius}

CenterOffsets == (-MaxCentersDistance)..MaxCentersDistance

SourceInputs == {Pt(3 * CS, -CS), Pt(-3 * CS, -FarY * CS)}

TargetInputs == {Pt(8 * CS, CS), Pt(2 * CS, FarY * CS)}

AllCirclesInputs(circle1, circle2) ==
  {<< >>, <<circle1>>, <<circle2>>, <<circle1, circle2>>}

(***************************************************************************)
(* The single-threat planner (algorithms/single_threat.py), for the threat *)
(* Circle(center, radius).                                                 *)
(*                                                                         *)
(* A coord of the planner is kept in polar form about the threat's center, *)
(* with its distance rad in units of 1 / CS, and with beta, the angle at   *)
(* the center between the coord and the points where its tangents touch    *)
(* the threat (cos(beta) = radius / rad; 0 for a coord on the threat).     *)
(* Lengths are in units of 1 / CS, rounded down.                           *)
(***************************************************************************)
RECURSIVE ISqrtIn(_, _, _)
\* the greatest k in lo .. hi with k * k <= n
ISqrtIn(n, lo, hi) ==
  IF lo = hi THEN lo
  ELSE LET mid == (lo + hi + 1) \div 2
       IN  IF mid * mid <= n THEN ISqrtIn(n, mid, hi) ELSE ISqrtIn(n, lo, mid - 1)

ISqrt(n) == IF n <= 0 THEN 0 ELSE ISqrtIn(n, 0, MaxLength)

\* a * n / d rounded towards zero, without forming a * n
MulDiv(a, n, d) ==
  LET m == Abs(n)
      v == a * (m \div d) + (a * (m % d)) \div d
  IN  IF n < 0 THEN -v ELSE v

\* the coord seen from the center in direction a, from which the threat is
\* seen under the half-angle beta
CoordOutside(beta, a) ==
  [rad |-> (radius * CS * SCALE) \div Cos(beta), ang |-> NormAngle(a), beta |-> beta]

\* the greatest grid angle that is at most acos(radius / rad), for rad >= radius
half_angle(rad) ==
  CHOOSE k \in 0..QuarterTurn :
    /\ Cos(k) * rad >= SCALE * radius * CS
    /\ k < QuarterTurn => Cos(k + 1) * rad < SCALE * radius * CS

\* a point of the circle, or of its boundary, as a coord of the planner
CoordOf(p) == [rad |-> p.rad * CS, ang |-> p.ang, beta |-> half_angle(p.rad * CS)]

\* Coord.distance_to: the law of cosines
distance_to(p, q) ==
  ISqrt(p.rad * p.rad + q.rad * q.rad - 2 * MulDiv(p.rad, q.rad * Cos(p.ang - q.ang), SCALE))

\* line 54, for a coord of the planner
threat_contains(coord) == coord.rad <= radius * CS

\* line 57 with half of the chord taken for the intersection
segment_intersection_length_mutant(p, q) ==
  LET d == AngDist(p.ang, q.ang)
  IN  IF d <= p.beta + q.beta THEN 0
      ELSE LET h == MulDiv(p.rad, q.rad * Sin(d), SCALE) \div distance_to(p, q)
           IN  IF h >= radius * CS THEN 0
               ELSE ISqrt(radius * CS * radius * CS - h * h)

\* line 57: self.inner_polygon.intersection(segment.to_shapely).length for a
\* segment with no end strictly inside the threat.  The segment misses the
\* interior of the polygon exactly when its ends are at most beta(p) +
\* beta(q) apart in angle; otherwise it cuts it in a chord at distance h
\* from the center.
segment_intersection_length(p, q) ==
  LET d == AngDist(p.ang, q.ang)
  IN  IF d <= p.beta + q.beta THEN 0
      ELSE LET h == MulDiv(p.rad, q.rad * Sin(d), SCALE) \div distance_to(p, q)
           IN  IF h >= radius * CS THEN 0
               ELSE 2 * ISqrt(radius * CS * radius * CS - h * h)

RECURSIVE path_intersection_length(_)
\* lines 56-57: the sum over the segments of the path
path_intersection_length(path) ==
  IF Len(path) < 2 THEN 0
  ELSE segment_intersection_length(path[1], path[2]) + path_intersection_length(Tail(path))

RECURSIVE compute_path_length(_)
\* Path.length: the sum of the lengths of the segments
compute_path_length(path) ==
  IF Len(path) < 2 THEN 0
  ELSE distance_to(path[1], path[2]) + compute_path_length(Tail(path))

\* the (path, length, risk) triple of a path
Triple(path) ==
  [kind |-> "path", path |-> path, length |-> compute_path_length(path),
   risk |-> path_intersection_length(path)]

\* the failure of a call, or "none"
failure(source, target, budget) ==
  IF threat_contains(source) THEN "SourceInsideThreat"
  ELSE IF threat_contains(target) THEN "TargetInsideThreat"
  ELSE IF budget < 0 THEN "NegativeBudget"
  ELSE "none"

\* single_threat_shortest_path: Path([source, target]) whatever the risk
shortest_path(source, target) == Triple(<<source, target>>)

single_threat_shortest_path(source, target) ==
  /\ op' = "single_threat_shortest_path"
  /\ args' = [source |-> source, target |-> target, budget |-> 0]
  /\ result' = IF failure(source, target, 0) # "none"
               THEN [kind |-> failure(source, target, 0)]
               ELSE shortest_path(source, target)
  /\ pc' = "done"
  /\ UNCHANGED <<radius, angle, boundary, point_between, inf_partition>>

\* single_threat_safest_path: the direct segment has no intersection with
\* the inner region
direct_is_safe(source, target) ==
  path_intersection_length(<<source, target>>) = 0

\* single_threat_safest_path, up to the routing around the threat: the
\* direct segment is returned unchanged when it is safe
safest_path_begin(source, target) ==
  IF direct_is_safe(source, target)
  THEN /\ result' = shortest_path(source, target)
       /\ pc' = "done"
  ELSE /\ result' = NoResult
       /\ pc' = "safest_tangents"

single_threat_safest_path(source, target) ==
  /\ op' = "single_threat_safest_path"
  /\ args' = [source |-> source, target |-> target, budget |-> 0]
  /\ IF failure(source, target, 0) # "none"
     THEN result' = [kind |-> failure(source, target, 0)] /\ pc' = "done"
     ELSE safest_path_begin(source, target)
  /\ UNCHANGED <<radius, angle, boundary, point_between, inf_partition>>

\* the side on which the threat is passed: the one of the shorter way round
\* from source to target
side(source, target) == IF NormAngle(target.ang - source.ang) >= 0 THEN 1 ELSE -1

\* the points where the tangents from source and from target touch the
\* threat, on the side of the shorter way round
tangent_from_source(source, target) ==
  Polar(radius, source.ang + side(source, target) * source.beta)

tangent_to_target(source, target) ==
  Polar(radius, target.ang - side(source, target) * target.beta)

\* single_threat_safest_path: the tangent points, then
\* threat.get_boundary_between(tangent_from_source, tangent_to_target)
safest_path_tangents ==
  /\ pc = "safest_tangents"
  /\ get_boundary_between_enter(tangent_from_source(args.source, args.target),
                                tangent_to_target(args.source, args.target), args)
  /\ UNCHANGED <<radius, op, result, point_between, inf_partition>>

RECURSIVE CoordsOf(_)
CoordsOf(points) ==
  IF Len(points) = 0 THEN << >> ELSE <<CoordOf(Head(points))>> \o CoordsOf(Tail(points))

\* single_threat_safest_path: source, the tangent point, the boundary between
\* the tangent points, the other tangent point, target
safest_path_assemble ==
  /\ pc = "safest_assemble"
  /\ result' = Triple(<<args.caller.source, CoordOf(args.start)>>
                        \o CoordsOf(result.points)
                        \o <<CoordOf(args.end), args.caller.target>>)
  /\ args' = args.caller
  /\ pc' = "done"
  /\ UNCHANGED <<radius, op, angle, boundary, point_between, inf_partition>>

\* the three cases with a budget of zero left to the second one
budget_case_mutant(source, target, budget) ==
  IF budget > 0 /\ budget < path_intersection_length(<<source, target>>) THEN "search"
  ELSE "shortest"

\* single_threat_shortest_path_with_budget_constraint: which of the three
\* cases a budget falls in
budget_case(source, target, budget) ==
  IF budget = 0 THEN "safest"
  ELSE IF budget >= path_intersection_length(<<source, target>>) THEN "shortest"
  ELSE "search"

\* single_threat_shortest_path_with_budget_constraint; the numeric search of
\* the third case is not modelled: the call stays in it
single_threat_shortest_path_with_budget_constraint(source, target, budget) ==
  /\ op' = "single_threat_shortest_path_with_budget_constraint"
  /\ args' = [source |-> source, target |-> target, budget |-> budget]
  /\ IF failure(source, target, budget) # "none"
     THEN result' = [kind |-> failure(source, target, budget)] /\ pc' = "done"
     ELSE IF budget_case(source, target, budget) = "safest"
          THEN safest_path_begin(source, target)
     ELSE IF budget_case(source, target, budget) = "shortest"
          THEN result' = shortest_path(source, target) /\ pc' = "done"
     ELSE result' = NoResult /\ pc' = "budget_search"
  /\ UNCHANGED <<radius, angle, boundary, point_between, inf_partition>>

\* lines 39-41: 2 * math.pi * self._radius, in units of 1 / CS
perimeter == (2 * 31416 * radius * CS) \div SCALE

RECURSIVE boundary_samples(_, _)
\* lines 90-94 and 98-102: the samples from angle a up to the angle last
boundary_samples(a, last) ==
  IF a < last
  THEN <<center_shifted(radius + EPSILON, a)>> \o boundary_samples(a + ANGLE_STEP, last)
  ELSE <<center_shifted(radius + EPSILON, last)>>

\* lines 79-104 as a function of start and end
get_boundary_between(start, end) ==
  LET angle1 == calculate_directional_angle_of_line(start)
      angle2 == calculate_directional_angle_of_line(end)
      small_angle == IF angle1 < angle2 THEN angle1 ELSE angle2
      great_angle == IF angle1 < angle2 THEN angle2 ELSE angle1
  IN  oriented(IF shorter_is_counterclockwise(small_angle, great_angle)
               THEN boundary_samples(small_angle, great_angle)
               ELSE boundary_samples(great_angle, small_angle + FullTurn),
               start, end)

\* what single_threat_safest_path returns, as a function of source and target
safest_path(source, target) ==
  IF direct_is_safe(source, target) THEN shortest_path(source, target)
  ELSE LET t1 == tangent_from_source(source, target)
           t2 == tangent_to_target(source, target)
       IN  Triple(<<source, CoordOf(t1)>> \o CoordsOf(get_boundary_between(t1, t2))
                    \o <<CoordOf(t2), target>>)

PlannerBetas == {0, NearBeta, FarBeta}

PlannerSources == {CoordOutside(b, a) : b \in PlannerBetas, a \in {0, HalfTurn - AngleStride}}

PlannerTargets == {CoordOutside(b, a) : b \in PlannerBetas, a \in AngleInputs}

\* no budget, the risk of the direct segment and its neighbours, half of it,
\* more than the diameter, and a negative budget
BudgetInputs(source, target) ==
  LET direct == path_intersection_length(<<source, target>>)
  IN  {0, direct \div 2, direct - 1, direct, direct + 1, 2 * radius * CS + CS}

(***************************************************************************)
(* The state machine                                                       *)
(***************************************************************************)
Init ==
  /\ radius \in 1..MaxRadius
  /\ pc = "idle"
  /\ op = "none"
  /\ args = [none |-> TRUE]
  /\ angle = 0
  /\ boundary = << >>
  /\ point_between = Pt(0, 0)
  /\ inf_partition = [a |-> Pt(0, 0), b |-> Pt(0, 0)]
  /\ result = NoResult

Next ==
  \/ /\ pc = "idle"
     /\ \E start \in PointInputs, end \in PointInputs : get_boundary_between_call(start, end)
  \/ get_boundary_between_counterclockwise
  \/ get_boundary_between_clockwise
  \/ get_boundary_between_return
  \/ /\ pc = "idle"
     /\ \E start \in ExitStartInputs, target \in PointInputs, up \in BOOLEAN :
          \E chord2 \in ChordInputs(start) : calculate_exit_point(start, chord2, target, up)
  \/ /\ pc = "idle"
     /\ \E r1 \in PartitionRadii, r2 \in PartitionRadii, d \in CenterOffsets :
          LET circle1 == CircleOf(Pt(0, 0), r1 * CS)
              circle2 == CircleOf(Pt(d * CS, 0), r2 * CS)
          IN  \E source \in SourceInputs, target \in TargetInputs,
                 all_circles \in AllCirclesInputs(circle1, circle2) :
                calculate_partition_between_circles(circle1, circle2, source, target, all_circles)
  \/ calculate_partition_truncate
  \/ /\ pc = "idle"
     /\ \E source \in PlannerSources, target \in PlannerTargets :
          single_threat_shortest_path(source, target)
  \/ /\ pc = "idle"
     /\ \E source \in PlannerSources, target \in PlannerTargets :
          single_threat_safest_path(source, target)
  \/ /\ pc = "idle"
     /\ \E source \in PlannerSources, target \in PlannerTargets :
          \E budget \in BudgetInputs(source, target) :
            single_threat_shortest_path_with_budget_constraint(source, target, budget)
  \/ safest_path_tangents
  \/ safest_path_assemble

Spec == Init /\ [][Next]_vars

(***************************************************************************)
(* Claims                                                                  *)
(***************************************************************************)
Returned(name) == pc = "done" /\ op = name

RECURSIVE SweepOf(_)
\* the sum of the angles between consecutive points of a list
SweepOf(points) ==
  IF Len(points) < 2 THEN 0
  ELSE AngDist(points[1].ang, points[2].ang) + SweepOf(Tail(points))

\* C8: get_boundary_between terminates and returns points that are all at
\* distance radius + EPSILON from the center, run from the angular position of
\* one of start, end to that of the other in steps of at most ANGLE_STEP, and
\* sweep the shorter of the two arcs (at most pi), wraparound included.
C8_boundary_is_shorter_arc ==
  /\ Len(boundary) <= BUFFER_RESOLUTION + 2
  /\ Returned("get_boundary_between") =>
       LET points == result.points
           n == Len(points)
       IN  /\ n >= 1
           /\ \A i \in 1..n : points[i].rad = radius + EPSILON
           /\ {points[1].ang, points[n].ang} = {args.start.ang, args.end.ang}
           /\ \A i \in 1..(n - 1) : AngDist(points[i].ang, points[i + 1].ang) <= ANGLE_STEP
           /\ SweepOf(points) = AngDist(args.start.ang, args.end.ang)
           /\ SweepOf(points) <= HalfTurn

\* C8 witness: a returned boundary whose shorter arc crosses the discontinuity
\* of the angle at pi and is not a whole number of steps long
C8_witness ==
  /\ Returned("get_boundary_between")
  /\ args.great_angle - args.small_angle > HalfTurn
  /\ Len(result.points) > 3
  /\ SweepOf(result.points) % ANGLE_STEP # 0

\* the boundary point at the angular position of p
BoundaryPointAt(p) == center_shifted(radius + EPSILON, p.ang)

\* C9 as claimed: for every start and end the first returned point is nearer
\* to start than to end and the last point is at end's angular position.
C9_first_point_nearer_start_always ==
  Returned("get_boundary_between") =>
    LET points == result.points
    IN  /\ Dist2(points[1], args.start) < Dist2(points[1], args.end)
        /\ points[Len(points)].ang = args.end.ang

\* C9 amended: when the boundary point at start's angular position is nearer
\* to start than to end, and the boundary point at end's angular position is
\* not nearer to start than to end (as for two distinct points of one circle
\* about the center), the returned list starts at start's angular position
\* with a point nearer to start than to end, and ends at end's.
C9_first_point_nearer_start ==
  ( /\ Returned("get_boundary_between")
    /\ Dist2(BoundaryPointAt(args.start), args.start) < Dist2(BoundaryPointAt(args.start), args.end)
    /\ Dist2(BoundaryPointAt(args.end), args.end) <= Dist2(BoundaryPointAt(args.end), args.start) )
  =>
    LET points == result.points
    IN  /\ Dist2(points[1], args.start) < Dist2(points[1], args.end)
        /\ points[1].ang = args.start.ang
        /\ points[Len(points)].ang = args.end.ang

\* C9 witness: start and end on the circle, end at the smaller angle, so that
\* the sampled list had to be reversed
C9_witness ==
  /\ Returned("get_boundary_between")
  /\ args.start.rad = radius /\ args.end.rad = radius
  /\ args.start.ang # args.end.ang
  /\ Len(boundary) > 2
  /\ result.points = Reverse(boundary)

\* the points of the circle (on the angle grid) at distance chord from start
PointsAtChord ==
  {p \in {Polar(radius, a) : a \in (1 - HalfTurn)..HalfTurn} : Dist2(p, args.start) = args.chord2}

IsDiametral == args.chord2 >= SCALE * (2 * radius) * (2 * radius)

\* what C7 says of the result for a chord of at least the diameter: the point
\* at distance 2 * radius from start towards the center (on the line through
\* start and the center, |start.rad - 2 * radius| from the center)
DiametralExitOk ==
  /\ result.kind = "point"
  /\ Dist2(result.point, args.start) = SCALE * (2 * radius) * (2 * radius)
  /\ result.point.rad = Abs(args.start.rad - 2 * radius)
  /\ args.start.rad = radius =>
       result.point = Polar(radius, args.start.ang + HalfTurn)

\* what C7 says of the result for a shorter chord
ChordExitOk ==
  LET points == PointsAtChord
  IN  /\ result.kind = "point"
      /\ result.point \in points
      /\ \A p \in points : ~(Dist2(p, args.target) < Dist2(result.point, args.target))

\* C7 as claimed: for chord >= 2 * radius the result is the point 2 * radius
\* from start towards the center; for every 0 <= chord < 2 * radius it is a
\* point of the circle at distance chord from start, and no other such point
\* is strictly closer to target.
C7_exit_point_for_every_chord ==
  Returned("calculate_exit_point") =>
    IF IsDiametral THEN DiametralExitOk ELSE ChordExitOk

\* C7 amended: the second case holds when some point of the circle is at
\* distance chord from start (always so when start is on the circle);
\* otherwise there is no result: min() of the empty list raises ValueError.
C7_exit_point ==
  Returned("calculate_exit_point") =>
    IF IsDiametral THEN DiametralExitOk
    ELSE IF result.kind = "ValueError" THEN PointsAtChord = {}
    ELSE ChordExitOk

\* C7 witness: two candidate points, the second of the list strictly closer
\* to target, and it is the one returned
C7_witness ==
  /\ Returned("calculate_exit_point")
  /\ ~IsDiametral
  /\ Cardinality(PointsAtChord) = 2
  /\ LET points == calculate_points_in_distance_on_circle(args.start, args.chord2, args.up)
     IN  /\ Dist2(points[2], args.target) < Dist2(points[1], args.target)
         /\ result.point = points[2]

(* calculate_partition_between_circles: what the claims speak of *)
InPartition == op = "calculate_partition_between_circles" /\ pc # "idle"

CentersDistance == segment_length(args.circle1.center, args.circle2.center)

\* the distance from the pivot to a center (both are on the center line)
PivotDistance(circle) == Abs(point_between.x - circle.center.x)

\* every vertex of the circle's polygon is strictly on one side of the
\* vertical line through the pivot
LineMisses(circle) ==
  LET coords == boundary_coords(circle)
  IN  \/ \A k \in 1..FullTurn : coords[k].x < point_between.x
      \/ \A k \in 1..FullTurn : coords[k].x > point_between.x

PivotBetweenDisjointCircles ==
  LET c1 == args.circle1
      c2 == args.circle2
      gap == CentersDistance - c1.radius - c2.radius
  IN  gap > 0 =>
        /\ point_between.y = c1.center.y
        /\ PivotDistance(c1) > c1.radius /\ ~contains(c1, point_between)
        /\ PivotDistance(c2) > c2.radius /\ ~contains(c2, point_between)
        /\ 2 * (PivotDistance(c1) - c1.radius) = gap
        /\ 2 * (PivotDistance(c2) - c2.radius) = gap
        /\ inf_partition.a.x = point_between.x /\ inf_partition.b.x = point_between.x
        /\ LineMisses(c1) /\ LineMisses(c2)

\* C10 as claimed: for disjoint circles the pivot is strictly between them,
\* equally far from both boundaries, and the partition line meets neither;
\* for overlapping circles (centers closer than radius1 + radius2) the pivot
\* lies inside both circles.
C10_pivot_inside_both_whenever_overlapping ==
  InPartition =>
    /\ PivotBetweenDisjointCircles
    /\ CentersDistance < args.circle1.radius + args.circle2.radius =>
         contains(args.circle1, point_between) /\ contains(args.circle2, point_between)

\* C10 amended: the second part holds unless one circle lies deep inside the
\* other: with radius2 > 3 * radius1 + centerDistance the pivot is outside
\* circle1, with radius1 > 3 * radius2 + centerDistance it is outside circle2.
C10_pivot ==
  InPartition =>
    LET c1 == args.circle1
        c2 == args.circle2
        D == CentersDistance
    IN  /\ PivotBetweenDisjointCircles
        /\ D < c1.radius + c2.radius =>
             /\ contains(c1, point_between) <=> c2.radius <= 3 * c1.radius + D
             /\ contains(c2, point_between) <=> c1.radius <= 3 * c2.radius + D

\* C10 witness: disjoint circles of different radii, circle2 left of circle1
C10_witness ==
  /\ InPartition
  /\ CentersDistance > args.circle1.radius + args.circle2.radius
  /\ args.circle1.radius # args.circle2.radius
  /\ args.circle2.center.x < args.circle1.center.x

\* the cut of the hull of all_shapely_points by the unbounded line through
\* the pivot, perpendicular to the center line
FullCut ==
  HullCut(all_shapely_points(args.source, args.target, args.all_circles), point_between.x)

\* C5: whenever the perpendicular through the pivot crosses the hull, the
\* result is a Segment perpendicular to the center line whose two ends are
\* the ends of the hull's cut by that line, however large the hull is.
C5_partition_is_hull_chord ==
  LET cut == FullCut
  IN  ( /\ Returned("calculate_partition_between_circles")
        /\ Len(args.all_circles) > 0
        /\ ~cut.empty /\ cut.bottom < cut.top )
      =>
        /\ result.kind = "Segment"
        /\ result.a.x = result.b.x
        /\ {result.a, result.b}
             = {Pt(point_between.x, cut.top), Pt(point_between.x, cut.bottom)}

\* the unbounded perpendicular misses the hull or meets it in one point
LineMissesOrTouchesHull ==
  LET cut == FullCut
  IN  cut.empty \/ cut.bottom = cut.top

\* C6 as claimed: when the perpendicular does not cut the hull in two
\* points, the call fails with DegeneratePartition.
C6_fails_with_DegeneratePartition ==
  (Returned("calculate_partition_between_circles") /\ LineMissesOrTouchesHull)
    => result.kind = "DegeneratePartition"

\* C6 amended: when the perpendicular does not cut the hull in two points,
\* the call returns no Segment and fails with an exception of the libraries:
\* ValueError (raised by Polygon) when all_circles is empty; otherwise
\* IndexError, raised by indexing the coordinates of the intersection, or,
\* for an empty intersection (the line misses the hull, or touches it farther
\* than INF from the pivot), possibly NotImplementedError.  A Segment is only
\* ever returned with two distinct ends.
C6_fails_with_IndexError ==
  Returned("calculate_partition_between_circles") =>
    /\ LineMissesOrTouchesHull =>
         result.kind \in
           IF Len(args.all_circles) = 0 THEN {"ValueError"}
           ELSE IF FullCut.empty \/ Abs(FullCut.top - point_between.y) > INF * CS
                THEN EmptyIntersectionErrors
           ELSE {"IndexError"}
    /\ result.kind = "Segment" => result.a # result.b

\* C6 witness: the perpendicular touches the hull in exactly one point (the
\* source, the leftmost point of the hull) and the call fails
C6_witness ==
  /\ Returned("calculate_partition_between_circles")
  /\ Len(args.all_circles) > 0
  /\ ~FullCut.empty /\ FullCut.bottom = FullCut.top
  /\ result.kind = "IndexError"

(* The planner: what the claims speak of *)
\* a call has returned for a source and a target outside the threat
ReturnedOutside(name) ==
  /\ Returned(name)
  /\ ~threat_contains(args.source) /\ ~threat_contains(args.target)

DirectRisk == path_intersection_length(<<args.source, args.target>>)

\* C1: for source and target outside the threat, the safest path has risk 0,
\* is strictly longer than dist(source, target) and strictly shorter than
\* dist(source, center) + dist(target, center) + half the perimeter.
C1_safest_path_longer_than_direct ==
  ReturnedOutside("single_threat_safest_path") =>
    /\ result.kind = "path"
    /\ result.risk = 0
    /\ result.length > distance_to(args.source, args.target)
    /\ result.length < args.source.rad + args.target.rad + perimeter \div 2

\* C2: for source and target outside the threat, the call with budget 0
\* returns the (path, length, risk) that single_threat_safest_path returns
\* for the same source and target.
C2_budget_zero_is_safest_path ==
  /\ ReturnedOutside("single_threat_safest_path") =>
       result = safest_path(args.source, args.target)
  /\ (ReturnedOutside("single_threat_shortest_path_with_budget_constraint") /\ args.budget = 0) =>
       result = safest_path(args.source, args.target)

\* C2 witness: a call with budget 0 that returned a path around the threat
C2_witness ==
  /\ ReturnedOutside("single_threat_shortest_path_with_budget_constraint")
  /\ args.budget = 0
  /\ result.kind = "path" /\ Len(result.path) > 5
  /\ result.risk = 0 /\ DirectRisk > 0

====
